---------------------------- MODULE Spec2Model ----------------------------
(***************************************************************************)
(* A model of dolphin_updater/__main__.py: the updater's single run        *)
(* (argument validation, variant detection, scraping of the version        *)
(* listing, the outdated test, the operator's prompt, the installer and    *)
(* the launch of the binary), and a two-run harness that installs the same *)
(* entries once as a flat and once as a wrapped archive.                   *)
(*                                                                         *)
(* Text (paths, versions, URLs, link texts, the bytes of the binary) is a  *)
(* sequence of one-character strings, so that endswith, the `in` test and  *)
(* the regular expressions are computed character by character.  The byte  *)
(* 0x00 is the token "NUL".  Python's None is the value None below.        *)
(*                                                                         *)
(* The file system is the installation directory: a function from entry    *)
(* names to nodes, a node being a file or a directory of nodes.  The       *)
(* program runs on Windows (it starts Dolphin.exe and 7zr.exe); a path     *)
(* with a ".." part names what Windows resolves it to.                     *)
(***************************************************************************)
EXTENDS Integers, Sequences, FiniteSets, TLC

(***************************************************************************)
(* Text                                                                    *)
(***************************************************************************)
None == <<"None">>

Digits == {"0", "1", "2", "3", "4", "5", "6", "7", "8", "9"}

NUL == "NUL"

Sep == <<"\\">>

\* str.endswith
EndsWith(s, suffix) ==
    /\ Len(suffix) <= Len(s)
    /\ SubSeq(s, Len(s) - Len(suffix) + 1, Len(s)) = suffix

\* Python's `sub in s` for two strings
Contains(sub, s) ==
    \E i \in 1..(Len(s) - Len(sub) + 1) : SubSeq(s, i, i + Len(sub) - 1) = sub

\* the last index of the run of characters of `set` that starts at s[i]
RunEnd(s, i, set) ==
    CHOOSE j \in i..Len(s) :
        /\ \A k \in i..j : s[k] \in set
        /\ (j = Len(s) \/ s[j + 1] \notin set)

\* the least element of a non-empty set of integers
Least(S) == CHOOSE i \in S : \A j \in S : i <= j

\* os.path.join(a, b) on Windows, for a relative b
Join(a, b) == a \o Sep \o b

\* os.path.dirname: the text before the last separator
Dirname(p) ==
    LET seps == {i \in 1..Len(p) : p[i] \in {"\\", "/"}}
    IN  IF seps = {} THEN <<>>
        ELSE SubSeq(p, 1, (CHOOSE i \in seps : \A j \in seps : j <= i) - 1)

\* os.path.basename: the text after the last separator
Basename(p) ==
    LET seps == {i \in 1..Len(p) : p[i] \in {"\\", "/"}}
    IN  IF seps = {} THEN p
        ELSE SubSeq(p, (CHOOSE i \in seps : \A j \in seps : j <= i) + 1, Len(p))

(***************************************************************************)
(* The outcome of a call: the value it returns, or the exception it raises *)
(***************************************************************************)
Ok(v) == [exc |-> "", val |-> v]

Raise(e) == [exc |-> e, val |-> None]

(***************************************************************************)
(* Regular expressions (re.search: the leftmost match, greedy)             *)
(***************************************************************************)
\* b"[4|5]\.0-[0-9]+" matches at i: the class [4|5] holds "4", "|" and "5"
DolphinVersionAt(s, i) ==
    /\ i + 4 <= Len(s)
    /\ s[i] \in {"4", "|", "5"}
    /\ s[i + 1] = "."
    /\ s[i + 2] = "0"
    /\ s[i + 3] = "-"
    /\ s[i + 4] \in Digits

\* re.search(b"[4|5]\.0-[0-9]+", s): the match's text, or None
SearchDolphinVersion(s) ==
    LET at == {i \in 1..Len(s) : DolphinVersionAt(s, i)}
    IN  IF at = {} THEN None
        ELSE SubSeq(s, Least(at), RunEnd(s, Least(at) + 4, Digits))

\* "\([^)]+\)" matches at s[j]: the index of its ")", or 0
CloseParen(s, j) ==
    LET ks == {k \in (j + 2)..Len(s) :
                  s[k] = ")" /\ \A m \in (j + 1)..(k - 1) : s[m] # ")"}
    IN  IF j <= Len(s) /\ s[j] = "(" /\ ks # {} THEN Least(ks) ELSE 0

X64_7z == <<".", "x", "6", "4", ".", "7", "z">>

Master == <<"m", "a", "s", "t", "e", "r">>

\* the lookahead (?=\([^)]+\)\.x64\.7z) holds at s[j]
ArchiveNameAhead(s, j) ==
    LET k == CloseParen(s, j)
    IN  k # 0 /\ k + Len(X64_7z) <= Len(s)
              /\ SubSeq(s, k + 1, k + Len(X64_7z)) = X64_7z

\* the lookahead (?=\([^)]+\)[\x00]+master) holds at s[j]
MasterAhead(s, j) ==
    LET k == CloseParen(s, j)
    IN  /\ k # 0
        /\ k + 1 <= Len(s)
        /\ s[k + 1] = NUL
        /\ LET m == RunEnd(s, k + 1, {NUL})
           IN  m + Len(Master) <= Len(s)
               /\ SubSeq(s, m + 1, m + Len(Master)) = Master

\* re.search("[0-9]+(?=\([^)]+\)\.x64\.7z)", s): the match's text, or None
SearchArchiveBuild(s) ==
    LET at == {i \in 1..Len(s) :
                  s[i] \in Digits /\ ArchiveNameAhead(s, RunEnd(s, i, Digits) + 1)}
    IN  IF at = {} THEN None
        ELSE SubSeq(s, Least(at), RunEnd(s, Least(at), Digits))

\* re.search(b"[0-9]+(?=\([^)]+\)[\x00]+master)", s): the match's text, or None
SearchInstalledBuild(s) ==
    LET at == {i \in 1..Len(s) :
                  s[i] \in Digits /\ MasterAhead(s, RunEnd(s, i, Digits) + 1)}
    IN  IF at = {} THEN None
        ELSE SubSeq(s, Least(at), RunEnd(s, Least(at), Digits))

Ishiiruka == <<"I", "s", "h", "i", "i", "r", "u", "k", "a">>

\* is_ishiiruka_build: bool(re.search(b"Ishiiruka", bytes))
is_ishiiruka_build(bytes) == Contains(Ishiiruka, bytes)


(***************************************************************************)
(* Version Source - Mainline (class DolphinBuilds).  The versions table is *)
(* the sequence of its releases in document order; a release is its        *)
(* tr.infos row (the text of the version link) followed by its tr.download *)
(* row (the href of the a.win link, None when the row has none).           *)
(* `found` is FALSE when the page holds no table.versions-list.            *)
(***************************************************************************)
Release(version, win) == [version |-> version, win |-> win]

Table(rows) == [found |-> TRUE, rows |-> rows]

NoTable == [found |-> FALSE, rows |-> <<>>]

\* the first tr.download row that holds an a.win link, 0 when there is none
LatestDownloadRow(table) ==
    LET at == {i \in 1..Len(table.rows) : table.rows[i].win # None}
    IN  IF at = {} THEN 0 ELSE Least(at)

\* DolphinBuilds.get_latest_download
DolphinBuilds_get_latest_download(table) ==
    IF ~table.found THEN Raise("AttributeError")
    ELSE IF LatestDownloadRow(table) = 0 THEN Ok(None)
    ELSE Ok(table.rows[LatestDownloadRow(table)].win)

\* the first tr.infos row whose version text is part of the download URL
LatestVersionRow(table, latest_download) ==
    LET at == {i \in 1..Len(table.rows) :
                  Contains(table.rows[i].version, latest_download)}
    IN  IF at = {} THEN 0 ELSE Least(at)

\* DolphinBuilds.get_latest_version: `text in None` is a TypeError
DolphinBuilds_get_latest_version(table, latest_download) ==
    IF ~table.found THEN Raise("AttributeError")
    ELSE IF Len(table.rows) = 0 THEN Ok(None)
    ELSE IF latest_download = None THEN Raise("TypeError")
    ELSE IF LatestVersionRow(table, latest_download) = 0 THEN Ok(None)
    ELSE Ok(table.rows[LatestVersionRow(table, latest_download)].version)

\* match.group() of a re.search that found nothing is an AttributeError
GroupOf(match) == IF match = None THEN Raise("AttributeError") ELSE Ok(match)

\* DolphinBuilds.get_installed_version
DolphinBuilds_get_installed_version(bytes) == GroupOf(SearchDolphinVersion(bytes))

\* DolphinBuilds.print_latest_version: the colour of each printed row
DolphinBuilds_print_latest_version(table, installed_version, latest_version) ==
    [i \in 1..Len(table.rows) |->
        IF table.rows[i].version = installed_version THEN "CYAN"
        ELSE IF table.rows[i].version = latest_version THEN "GREEN"
        ELSE "plain"]

(***************************************************************************)
(* Version Source - Community Fork (class IshiirukaBuilds).  The table is  *)
(* the sequence of the a.file-link.filename-link anchors of the gallery    *)
(* container, each its text and its href (None when it has none).          *)
(***************************************************************************)
Anchor(text, href) == [text |-> text, href |-> href]

\* the first anchor whose text matches the archive-name pattern, 0 if none
LatestAnchor(table) ==
    LET at == {i \in 1..Len(table.rows) :
                  SearchArchiveBuild(table.rows[i].text) # None}
    IN  IF at = {} THEN 0 ELSE Least(at)

\* IshiirukaBuilds.get_latest_version
IshiirukaBuilds_get_latest_version(table) ==
    IF LatestAnchor(table) = 0 THEN Ok(None)
    ELSE Ok(SearchArchiveBuild(table.rows[LatestAnchor(table)].text))

\* IshiirukaBuilds.get_latest_download: href[:-1] + "1"
IshiirukaBuilds_get_latest_download(table) ==
    IF LatestAnchor(table) = 0 THEN Ok(None)
    ELSE LET href == table.rows[LatestAnchor(table)].href
         IN  IF href = None THEN Raise("TypeError")
             ELSE Ok(SubSeq(href, 1, Len(href) - 1) \o <<"1">>)

\* IshiirukaBuilds.get_installed_version
IshiirukaBuilds_get_installed_version(bytes) == GroupOf(SearchInstalledBuild(bytes))

\* IshiirukaBuilds.print_latest_version: one line, the latest version in green
IshiirukaBuilds_print_latest_version(latest_version) == <<"GREEN">>

\* the number a version string ends with, -1 when it ends with no digit
DigitValue(c) == CHOOSE n \in 0..9 : <<"0", "1", "2", "3", "4", "5", "6", "7", "8", "9">>[n + 1] = c

RECURSIVE Numeric(_)
Numeric(s) ==
    IF Len(s) = 0 \/ s[Len(s)] \notin Digits THEN -1
    ELSE LET rest == Numeric(SubSeq(s, 1, Len(s) - 1))
         IN  (IF rest < 0 THEN 0 ELSE 10 * rest) + DigitValue(s[Len(s)])

\* is_outdated comparing the build numbers instead of the strings
is_outdated_by_number(latest_version, installed_version) ==
    Numeric(latest_version) # Numeric(installed_version)

\* Builds.is_outdated
is_outdated(latest_version, installed_version) == latest_version # installed_version

(***************************************************************************)
(* The file system: a directory is a function from entry names to nodes.   *)
(***************************************************************************)
EmptyDir == [n \in {} |-> {}]

File(data) == [kind |-> "file", data |-> data, children |-> EmptyDir]

Dir(children) == [kind |-> "dir", data |-> "", children |-> children]

\* the directory d with entry n set to node
Put(d, n, node) == [m \in (DOMAIN d) \cup {n} |-> IF m = n THEN node ELSE d[m]]

\* the directory d without entry n
Del(d, n) == [m \in (DOMAIN d) \ {n} |-> d[m]]

\* the directory d restricted to the names of S
Restrict(d, S) == [m \in (DOMAIN d) \cap S |-> d[m]]

DolphinExe == <<"D", "o", "l", "p", "h", "i", "n", ".", "e", "x", "e">>

Dolphin7z == <<"D", "o", "l", "p", "h", "i", "n", ".", "7", "z">>

Extracted == <<"E", "x", "t", "r", "a", "c", "t", "e", "d">>

\* update_dolphin's packed_folder_name
packed_folder_name == <<"D", "o", "l", "p", "h", "i", "n", "-", "x", "6", "4">>

\* the outcome of a file-system step: the exception raised ("" for none) and
\* the installation directory as the step leaves it
Done(d) == [exc |-> "", dir |-> d]

Failed(e, d) == [exc |-> e, dir |-> d]

(***************************************************************************)
(* Installer                                                               *)
(***************************************************************************)
\* int(a / b) for b # 0: Python's true division, truncated towards zero
TruncDiv(a, b) ==
    LET abs(x) == IF x < 0 THEN -x ELSE x
    IN  IF (a < 0) = (b < 0) THEN abs(a) \div abs(b) ELSE -(abs(a) \div abs(b))

\* download_report_hook: the percentage printed, or the ZeroDivisionError
download_report_hook(count, block_size, total_size) ==
    IF total_size = 0 THEN Raise("ZeroDivisionError")
    ELSE Ok(TruncDiv(count * block_size * 100, total_size))

\* urlretrieve's block size
BlockSize == 1024 * 8

\* the number of blocks urlretrieve reads of a body of n bytes
Blocks(n) == (n + BlockSize - 1) \div BlockSize

\* the counts of urlretrieve's calls of the hook, in order: 0, then one per block
HookCounts(body) == [i \in 1..(Blocks(body) + 1) |-> i - 1]

\* A response to the download request: `status` is "ok" or "error" (no
\* response), `length` the declared Content-Length (-1 when the header is
\* missing), `body` the number of bytes sent.
Response(status, length, body) == [status |-> status, length |-> length, body |-> body]

\* download: urllib.request.urlretrieve(url, filename=Dolphin.7z, reporthook)
\* on the installation directory d
download(d, url, response) ==
    LET hooks == [i \in 1..(Blocks(response.body) + 1) |->
                     download_report_hook(HookCounts(response.body)[i],
                                          BlockSize, response.length)]
        written == Put(d, Dolphin7z, File("dl"))
        partial == Put(d, Dolphin7z, File("partial"))
    IN  IF url = None THEN Failed("TypeError", d)
        ELSE IF response.status # "ok" THEN Failed("URLError", d)
        ELSE IF Dolphin7z \in DOMAIN d /\ d[Dolphin7z].kind = "dir"
             THEN Failed("OSError", d)
        ELSE IF \E i \in DOMAIN hooks : hooks[i].exc # ""
             THEN Failed("ZeroDivisionError", partial)
        ELSE IF response.length >= 0 /\ response.body < response.length
             THEN Failed("ContentTooShortError", partial)
        ELSE Done(written)

\* the percentages download prints, up to the first hook that raises
Percentages(response) ==
    LET n == Blocks(response.body) + 1
        ok == {i \in 1..n : \A j \in 1..i :
                  download_report_hook(j - 1, BlockSize, response.length).exc = ""}
    IN  [i \in 1..Cardinality(ok) |->
            download_report_hook(i - 1, BlockSize, response.length).val]

\* What 7zr leaves behind: `created` says whether it made the output folder,
\* `top` is what it wrote there, `status` is its exit status.
Written(created, top, status) == [created |-> created, top |-> top, status |-> status]

\* extract_dolphin_7z: the exit status of 7zr is not looked at
extract_dolphin_7z(d, written) ==
    IF Extracted \in DOMAIN d /\ d[Extracted].kind # "dir"
    THEN Failed("NotADirectoryError", d)
    ELSE IF written.created THEN Done(Put(d, Extracted, Dir(written.top)))
    ELSE Done(Del(d, Extracted))

\* os.listdir: the names of a directory in the order the file system gives,
\* `order` being that order on all names
ListDir(children, order) == SelectSeq(order, LAMBDA n : n \in DOMAIN children)

\* the folder update_dolphin moves from: the extraction folder, or (packed)
\* the Dolphin-x64 folder in it; Absent when the path no longer resolves
Absent == [kind |-> "absent", data |-> "", children |-> EmptyDir]

SourceFolder(d, packed) ==
    IF Extracted \notin DOMAIN d THEN Absent
    ELSE IF ~packed THEN d[Extracted]
    ELSE IF packed_folder_name \notin DOMAIN d[Extracted].children THEN Absent
    ELSE d[Extracted].children[packed_folder_name]

\* the directory d with entry n taken out of the source folder
TakeFromSource(d, packed, n) ==
    IF ~packed THEN Put(d, Extracted, Dir(Del(d[Extracted].children, n)))
    ELSE Put(d, Extracted,
             Dir(Put(d[Extracted].children, packed_folder_name,
                     Dir(Del(SourceFolder(d, packed).children, n)))))

\* one turn of update_dolphin's loop: delete the old entry, move the new one
MoveOne(d, packed, file) ==
    LET removed == IF file \in DOMAIN d THEN Del(d, file) ELSE d
        src == SourceFolder(removed, packed)
    IN  IF src.kind # "dir" \/ file \notin DOMAIN src.children
        THEN Failed("FileNotFoundError", removed)
        ELSE Done(Put(TakeFromSource(removed, packed, file), file, src.children[file]))

\* update_dolphin's loop over files_to_move, from its i-th entry on
RECURSIVE MoveAll(_, _, _, _)
MoveAll(d, packed, files, i) ==
    IF i > Len(files) THEN Done(d)
    ELSE LET r == MoveOne(d, packed, files[i])
         IN  IF r.exc # "" THEN r ELSE MoveAll(r.dir, packed, files, i + 1)

\* the extracted_folder update_dolphin ends with, given the one it moved from
FolderToRemove(extracted_folder) ==
    IF EndsWith(extracted_folder, packed_folder_name)
    THEN Join(extracted_folder, <<".", ".">>)
    ELSE extracted_folder

\* shutil.rmtree(extracted_folder) at the end of update_dolphin.
\* <dir>\Extracted\Dolphin-x64\.. names <dir>\Extracted.  rmtree deletes the
\* folder's entries and then calls os.rmdir on the path it was given: where
\* ".." is resolved in the text of the path (lexical, Windows) that removes
\* the folder; where it is resolved through the directory Dolphin-x64, which
\* rmtree has just deleted (POSIX), os.rmdir raises FileNotFoundError and the
\* emptied folder stays.
rmtree_extracted(d, directory, extracted_folder, lexical) ==
    IF Extracted \notin DOMAIN d THEN Failed("FileNotFoundError", d)
    ELSE IF extracted_folder = Join(directory, Extracted)
    THEN Done(Del(d, Extracted))
    ELSE IF extracted_folder = Join(Join(Join(directory, Extracted), packed_folder_name),
                                    <<".", ".">>)
    THEN IF lexical THEN Done(Del(d, Extracted))
         ELSE IF packed_folder_name \in DOMAIN d[Extracted].children
         THEN Failed("FileNotFoundError", Put(d, Extracted, Dir(EmptyDir)))
         ELSE Failed("FileNotFoundError", d)
    ELSE IF packed_folder_name \in DOMAIN d[Extracted].children
    THEN Done(TakeFromSource(d, FALSE, packed_folder_name))
    ELSE Failed("FileNotFoundError", d)

\* update_dolphin(directory, extracted_folder) on the installation directory
\* d; `order` is the order os.listdir lists names in
update_dolphin(d, directory, order, lexical) ==
    IF Extracted \notin DOMAIN d THEN Failed("FileNotFoundError", d)
    ELSE
    LET top == ListDir(d[Extracted].children, order)
        packed == top = <<packed_folder_name>>
        extracted_folder ==
            IF packed THEN Join(Join(directory, Extracted), packed_folder_name)
            ELSE Join(directory, Extracted)
    IN  IF packed /\ SourceFolder(d, TRUE).kind # "dir"
        THEN Failed("NotADirectoryError", d)
        ELSE LET files_to_move ==
                     IF packed THEN ListDir(SourceFolder(d, TRUE).children, order)
                     ELSE top
                 moved == MoveAll(d, packed, files_to_move, 1)
             IN  IF moved.exc # "" THEN moved
                 ELSE rmtree_extracted(moved.dir, directory,
                                       FolderToRemove(extracted_folder), lexical)

\* os.remove(dolphin_7z_path), the last step of download_and_update
remove_archive(d) ==
    IF Dolphin7z \notin DOMAIN d THEN Failed("FileNotFoundError", d)
    ELSE IF d[Dolphin7z].kind = "dir" THEN Failed("OSError", d)
    ELSE Done(Del(d, Dolphin7z))

\* download_and_update(builds): the steps in order, the first exception ends it.
\* `step` names the step that raised ("" when none did).
download_and_update(d, latest_download, directory, response, written, order, lexical) ==
    LET a == download(d, latest_download, response)
        b == extract_dolphin_7z(a.dir, written)
        c == update_dolphin(b.dir, directory, order, lexical)
        e == remove_archive(c.dir)
    IN  IF a.exc # "" THEN [exc |-> a.exc, dir |-> a.dir, step |-> "download"]
        ELSE IF b.exc # "" THEN [exc |-> b.exc, dir |-> b.dir, step |-> "extract"]
        ELSE IF c.exc # "" THEN [exc |-> c.exc, dir |-> c.dir, step |-> "update"]
        ELSE IF e.exc # "" THEN [exc |-> e.exc, dir |-> e.dir, step |-> "remove"]
        ELSE [exc |-> "", dir |-> e.dir, step |-> ""]

(***************************************************************************)
(* Entry point and orchestrator                                            *)
(***************************************************************************)
\* validate_path without the test of the file name
validate_path_exists_only(dolphin_exe_path, directory, d) ==
    IF ~(Dirname(dolphin_exe_path) = directory
         /\ Basename(dolphin_exe_path) \in DOMAIN d) THEN 1
    ELSE 0

\* main's test of the --path argument: 0 to go on, else the exit status
validate_path(dolphin_exe_path, directory, d) ==
    IF ~EndsWith(dolphin_exe_path, DolphinExe) THEN 1
    ELSE IF ~(Dirname(dolphin_exe_path) = directory
              /\ Basename(dolphin_exe_path) \in DOMAIN d) THEN 1
    ELSE 0

\* confirmed taking every line for a confirmation
confirmed_any_line(line) == line # None

\* update_dolphin_if_necessary's test of the operator's line: input(...) == ''
confirmed(line) == line = <<>>

(***************************************************************************)
(* Inputs                                                                  *)
(***************************************************************************)
\* the longest listing (releases, or anchors) a fetched page holds
MaxRows == 2

\* the depth at which Python gives up a recursion (sys.getrecursionlimit(),
\* scaled down)
RecursionLimit == 6

\* the most entries of the archives the two-run harness installs
MaxEntries == 2

\* all sequences over S of length at most n
SeqsUpTo(S, n) == UNION {[1..k -> S] : k \in 0..n}

\* all orders of the names of S
Perms(S) == {f \in [1..Cardinality(S) -> S] : \A i, j \in DOMAIN f : f[i] = f[j] => i = j}

V12 == <<"5", ".", "0", "-", "1", "2">>

V1 == <<"5", ".", "0", "-", "1">>

V012 == <<"5", ".", "0", "-", "0", "1", "2">>

Url(version) == <<"/">> \o version \o <<".", "7", "z">>

\* the releases a fetched Mainline listing is made of
Releases ==
    {Release(V12, Url(V12)), Release(V1, None), Release(V012, Url(V012)),
     Release(V1, Url(V1))}

DolphinTables == {Table(rows) : rows \in SeqsUpTo(Releases, MaxRows)} \cup {NoTable}

B745 == <<"7", "4", "5">>

B0745 == <<"0", "7", "4", "5">>

ArchiveName(build) == build \o <<"(", "a", ")">> \o X64_7z

ShareLink == <<"/", "f", "?", "d", "l", "=", "0">>

\* the anchors a fetched Community Fork listing is made of
Anchors ==
    {Anchor(ArchiveName(B745), ShareLink), Anchor(ArchiveName(B0745), ShareLink),
     Anchor(<<"r", "e", "a", "d", "m", "e">>, ShareLink),
     Anchor(ArchiveName(B745), None)}

IshiirukaTables == {Table(rows) : rows \in SeqsUpTo(Anchors, MaxRows)}

\* the bytes of the installed binary
Binaries ==
    {<<"M", "Z">> \o V12 \o <<NUL>>,
     <<"M", "Z">> \o V1 \o <<NUL>>,
     <<"M", "Z", NUL>>,
     <<"M", "Z">> \o Ishiiruka \o <<NUL>> \o B745 \o <<"(", "a", ")", NUL, NUL>> \o Master,
     <<"M", "Z">> \o Ishiiruka \o <<NUL>>}

InstallDirPath == <<"C", ":", "\\", "e">>

FooExe == <<"F", "o", "o", ".", "e", "x", "e">>

\* the --path arguments
Paths ==
    {Join(InstallDirPath, DolphinExe),
     Join(InstallDirPath, FooExe),
     Join(InstallDirPath, <<"X">> \o DolphinExe),
     Join(<<"C", ":", "\\", "o">>, DolphinExe)}

Sys == <<"S", "y", "s">>

ChildOld == <<"o">>

ChildNew == <<"n">>

OldDir == Dir([n \in {ChildOld} |-> File("old")])

NewDir == Dir([n \in {ChildNew} |-> File("new")])

\* the installation directory as a run finds it
InstallDirs ==
    {[n \in {DolphinExe} |-> File("old")],
     [n \in {DolphinExe, FooExe, Sys} |-> IF n = Sys THEN OldDir ELSE File("old")],
     [n \in {DolphinExe, Extracted, Dolphin7z} |->
         IF n = Extracted THEN OldDir ELSE File("old")]}

Flat(entries) == entries

Wrapped(entries) == [n \in {packed_folder_name} |-> Dir(entries)]

\* the archives a download delivers: their top-level content
Archives ==
    {Flat([n \in {DolphinExe} |-> File("new")]),
     Flat([n \in {DolphinExe, Extracted} |-> IF n = Extracted THEN NewDir ELSE File("new")]),
     Wrapped([n \in {DolphinExe, Sys} |-> IF n = Sys THEN NewDir ELSE File("new")])}

\* what 7zr can leave of an archive: all of it (exit status 0); after an
\* error, part of it (exit status 2); nothing, not even the output folder,
\* of a file it cannot open (exit status 2)
Parts(top) ==
    {Restrict(top, S) : S \in (SUBSET DOMAIN top) \ {DOMAIN top}}
    \cup (IF DOMAIN top = {packed_folder_name} /\ top[packed_folder_name].kind = "dir"
          THEN {Wrapped(Restrict(top[packed_folder_name].children, S)) :
                   S \in (SUBSET DOMAIN top[packed_folder_name].children)
                         \ {DOMAIN top[packed_folder_name].children}}
          ELSE {})

Extractions(top) ==
    {Written(TRUE, top, 0), Written(FALSE, EmptyDir, 2)}
    \cup {Written(TRUE, part, 2) : part \in Parts(top)}

\* the responses of the download server
Responses ==
    {Response("error", -1, 0),
     Response("ok", -1, 12000),
     Response("ok", 12000, 12000),
     Response("ok", 20000, 12000),
     Response("ok", 0, 0)}

\* the lines the operator answers the prompt with
Lines == {<<>>, <<"n">>}

\* the names os.listdir can meet in an extraction folder holding `top`, in
\* every order
ListOrders(top) ==
    LET inner == IF packed_folder_name \in DOMAIN top
                 THEN DOMAIN top[packed_folder_name].children ELSE {}
    IN  Perms((DOMAIN top) \cup inner)

(***************************************************************************)
(* One run of main()                                                       *)
(***************************************************************************)
VARIABLES
    pc,          \* the call the run is at
    path,        \* dolphin_exe_path
    dir,         \* the installation directory
    dir0,        \* the installation directory as the run found it
    binary,      \* the bytes of the file at path
    variant,     \* "ishiiruka" or "dolphin" once detected
    table,       \* builds.table
    fetches,     \* calls of fetch_version_table
    builds,      \* latest_download, latest_version, installed_version
    outdated,    \* what builds.is_outdated() returned
    colours,     \* the rows print_latest_version printed
    prompted,    \* prompts shown
    line,        \* the operator's answer, None before it
    invoked,     \* download_and_update was called
    archive,     \* the top-level content of the downloaded archive
    percents,    \* the percentages download printed
    failed,      \* the installer steps that failed
    finished,    \* download_and_update returned
    net,         \* requests sent to the network
    reads,       \* reads of the binary
    launched,    \* launches of the binary
    exc,         \* the exception that ended the run, "" for none
    status,      \* the exit status, -1 while running
    hpc, hdir0, hentries, horder, hlexical, hflat, hwrapped   \* the two-run harness

mainvars == <<pc, path, dir, dir0, binary, variant, table, fetches, builds, outdated,
              colours, prompted, line, invoked, archive, percents, failed, finished,
              net, reads, launched, exc, status>>

hvars == <<hpc, hdir0, hentries, horder, hlexical, hflat, hwrapped>>

vars == <<mainvars, hvars>>

Unset == [latest_download |-> None, latest_version |-> None, installed_version |-> None]

HarnessIdle ==
    /\ hpc = "idle"
    /\ hdir0 = EmptyDir
    /\ hentries = EmptyDir
    /\ horder = <<>>
    /\ hlexical = TRUE
    /\ hflat = Done(EmptyDir)
    /\ hwrapped = Done(EmptyDir)

Init ==
    /\ pc = "main"
    /\ path \in Paths
    /\ dir0 \in InstallDirs
    /\ dir = dir0
    /\ binary \in Binaries
    /\ variant = ""
    /\ table = NoTable
    /\ fetches = 0
    /\ builds = Unset
    /\ outdated = FALSE
    /\ colours = <<>>
    /\ prompted = 0
    /\ line = None
    /\ invoked = FALSE
    /\ archive = EmptyDir
    /\ percents = <<>>
    /\ failed = {}
    /\ finished = FALSE
    /\ net = 0
    /\ reads = 0
    /\ launched = 0
    /\ exc = ""
    /\ status = -1
    /\ HarnessIdle

\* an uncaught exception ends the process with a stack trace and status 1
Crash(e) ==
    /\ pc' = "exited"
    /\ exc' = e
    /\ status' = 1

\* main, lines 198-209: the argument is checked before anything else
Main ==
    /\ pc = "main"
    /\ IF validate_path(path, InstallDirPath, dir) # 0
       THEN /\ pc' = "exited"
            /\ status' = validate_path(path, InstallDirPath, dir)
       ELSE /\ pc' = "is_ishiiruka_build"
            /\ status' = status
    /\ UNCHANGED <<path, dir, dir0, binary, variant, table, fetches, builds, outdated,
                   colours, prompted, line, invoked, archive, percents, failed,
                   finished, net, reads, launched, exc, hvars>>

\* update_dolphin_if_necessary, line 140
DetectVariant ==
    /\ pc = "is_ishiiruka_build"
    /\ reads' = reads + 1
    /\ variant' = IF is_ishiiruka_build(binary) THEN "ishiiruka" ELSE "dolphin"
    /\ pc' = "fetch_version_table"
    /\ UNCHANGED <<path, dir, dir0, binary, table, fetches, builds, outdated, colours,
                   prompted, line, invoked, archive, percents, failed, finished, net,
                   launched, exc, status, hvars>>

\* DolphinBuilds.fetch_version_table: one request; no table is not an error here
FetchDolphin ==
    /\ pc = "fetch_version_table"
    /\ variant = "dolphin"
    /\ net' = net + 1
    /\ fetches' = fetches + 1
    /\ \/ /\ Crash("URLError")
          /\ table' = table
       \/ /\ table' \in DolphinTables
          /\ pc' = "get_latest_download"
          /\ UNCHANGED <<exc, status>>
    /\ UNCHANGED <<path, dir, dir0, binary, variant, builds, outdated, colours,
                   prompted, line, invoked, archive, percents, failed, finished, reads,
                   launched, hvars>>

\* IshiirukaBuilds.fetch_version_table: one request; a page without the gallery
\* container makes the method call itself again
FetchIshiiruka ==
    /\ pc = "fetch_version_table"
    /\ variant = "ishiiruka"
    /\ net' = net + 1
    /\ fetches' = fetches + 1
    /\ \/ /\ Crash("URLError")
          /\ table' = table
       \/ /\ table' \in IshiirukaTables
          /\ pc' = "get_latest_download"
          /\ UNCHANGED <<exc, status>>
       \/ /\ table' = table
          /\ IF fetches + 1 < RecursionLimit
             THEN UNCHANGED <<pc, exc, status>>
             ELSE Crash("RecursionError")
    /\ UNCHANGED <<path, dir, dir0, binary, variant, builds, outdated, colours,
                   prompted, line, invoked, archive, percents, failed, finished, reads,
                   launched, hvars>>

\* Builds.__init__, line 21
GetLatestDownload ==
    /\ pc = "get_latest_download"
    /\ LET r == IF variant = "ishiiruka" THEN IshiirukaBuilds_get_latest_download(table)
                ELSE DolphinBuilds_get_latest_download(table)
       IN  IF r.exc # "" THEN Crash(r.exc) /\ builds' = builds
           ELSE /\ builds' = [builds EXCEPT !.latest_download = r.val]
                /\ pc' = "get_latest_version"
                /\ UNCHANGED <<exc, status>>
    /\ UNCHANGED <<path, dir, dir0, binary, variant, table, fetches, outdated, colours,
                   prompted, line, invoked, archive, percents, failed, finished, net,
                   reads, launched, hvars>>

\* Builds.__init__, line 22
GetLatestVersion ==
    /\ pc = "get_latest_version"
    /\ LET r == IF variant = "ishiiruka" THEN IshiirukaBuilds_get_latest_version(table)
                ELSE DolphinBuilds_get_latest_version(table, builds.latest_download)
       IN  IF r.exc # "" THEN Crash(r.exc) /\ builds' = builds
           ELSE /\ builds' = [builds EXCEPT !.latest_version = r.val]
                /\ pc' = "get_installed_version"
                /\ UNCHANGED <<exc, status>>
    /\ UNCHANGED <<path, dir, dir0, binary, variant, table, fetches, outdated, colours,
                   prompted, line, invoked, archive, percents, failed, finished, net,
                   reads, launched, hvars>>

\* Builds.__init__, line 23: the binary is read once more
GetInstalledVersion ==
    /\ pc = "get_installed_version"
    /\ reads' = reads + 1
    /\ LET r == IF variant = "ishiiruka" THEN IshiirukaBuilds_get_installed_version(binary)
                ELSE DolphinBuilds_get_installed_version(binary)
       IN  IF r.exc # "" THEN Crash(r.exc) /\ builds' = builds
           ELSE /\ builds' = [builds EXCEPT !.installed_version = r.val]
                /\ pc' = "is_outdated"
                /\ UNCHANGED <<exc, status>>
    /\ UNCHANGED <<path, dir, dir0, binary, variant, table, fetches, outdated, colours,
                   prompted, line, invoked, archive, percents, failed, finished, net,
                   launched, hvars>>

\* update_dolphin_if_necessary, lines 144-147: the listing and the prompt are
\* printed only for an outdated build
IsOutdated ==
    /\ pc = "is_outdated"
    /\ outdated' = is_outdated(builds.latest_version, builds.installed_version)
    /\ IF outdated'
       THEN /\ colours' = IF variant = "ishiiruka"
                          THEN IshiirukaBuilds_print_latest_version(builds.latest_version)
                          ELSE DolphinBuilds_print_latest_version(
                                   table, builds.installed_version, builds.latest_version)
            /\ prompted' = prompted + 1
            /\ pc' = "input"
       ELSE /\ pc' = "launch"
            /\ UNCHANGED <<colours, prompted>>
    /\ UNCHANGED <<path, dir, dir0, binary, variant, table, fetches, builds, line,
                   invoked, archive, percents, failed, finished, net, reads, launched,
                   exc, status, hvars>>

\* update_dolphin_if_necessary, lines 147-148: the operator's line decides
ReadLine ==
    /\ pc = "input"
    /\ line' \in Lines
    /\ IF confirmed(line')
       THEN invoked' = TRUE /\ pc' = "download"
       ELSE invoked' = invoked /\ pc' = "launch"
    /\ UNCHANGED <<path, dir, dir0, binary, variant, table, fetches, builds, outdated,
                   colours, prompted, archive, percents, failed, finished, net, reads,
                   launched, exc, status, hvars>>

\* download_and_update, line 156
Download ==
    /\ pc = "download"
    /\ \E response \in Responses, top \in Archives :
          LET r == download(dir, builds.latest_download, response)
          IN  /\ dir' = r.dir
              /\ net' = IF builds.latest_download = None THEN net ELSE net + 1
              /\ percents' = IF r.exc \in {"", "ZeroDivisionError", "ContentTooShortError"}
                             THEN Percentages(response) ELSE percents
              /\ IF r.exc # ""
                 THEN /\ Crash(r.exc)
                      /\ failed' = failed \cup {"download"}
                      /\ archive' = archive
                 ELSE /\ pc' = "extract"
                      /\ archive' = top
                      /\ UNCHANGED <<failed, exc, status>>
    /\ UNCHANGED <<path, dir0, binary, variant, table, fetches, builds, outdated,
                   colours, prompted, line, invoked, finished, reads, launched, hvars>>

\* download_and_update, line 158: 7zr's exit status raises nothing
Extract ==
    /\ pc = "extract"
    /\ \E written \in Extractions(archive) :
          LET r == extract_dolphin_7z(dir, written)
          IN  /\ dir' = r.dir
              /\ failed' = IF r.exc # "" \/ written.status # 0
                           THEN failed \cup {"extract"} ELSE failed
              /\ IF r.exc # "" THEN Crash(r.exc)
                 ELSE pc' = "update_dolphin" /\ UNCHANGED <<exc, status>>
    /\ UNCHANGED <<path, dir0, binary, variant, table, fetches, builds, outdated,
                   colours, prompted, line, invoked, archive, percents, finished, net,
                   reads, launched, hvars>>

\* download_and_update, line 160
UpdateDolphin ==
    /\ pc = "update_dolphin"
    /\ \E lexical \in BOOLEAN,
          order \in ListOrders(IF Extracted \in DOMAIN dir
                               THEN dir[Extracted].children ELSE EmptyDir) :
          LET r == update_dolphin(dir, Dirname(path), order, lexical)
          IN  /\ dir' = r.dir
              /\ IF r.exc # ""
                 THEN Crash(r.exc) /\ failed' = failed \cup {"update"}
                 ELSE pc' = "remove" /\ UNCHANGED <<failed, exc, status>>
    /\ UNCHANGED <<path, dir0, binary, variant, table, fetches, builds, outdated,
                   colours, prompted, line, invoked, archive, percents, finished, net,
                   reads, launched, hvars>>

\* download_and_update, line 161
RemoveArchive ==
    /\ pc = "remove"
    /\ LET r == remove_archive(dir)
       IN  /\ dir' = r.dir
           /\ IF r.exc # ""
              THEN Crash(r.exc) /\ failed' = failed \cup {"remove"}
                                /\ finished' = finished
              ELSE /\ pc' = "launch"
                   /\ finished' = TRUE
                   /\ UNCHANGED <<failed, exc, status>>
    /\ UNCHANGED <<path, dir0, binary, variant, table, fetches, builds, outdated,
                   colours, prompted, line, invoked, archive, percents, net, reads,
                   launched, hvars>>

\* main, line 211: the binary is started and the run ends
Launch ==
    /\ pc = "launch"
    /\ IF Basename(path) \in DOMAIN dir /\ dir[Basename(path)].kind = "file"
       THEN /\ launched' = launched + 1
            /\ pc' = "exited"
            /\ status' = 0
            /\ exc' = exc
       ELSE /\ Crash("OSError")
            /\ launched' = launched
    /\ UNCHANGED <<path, dir, dir0, binary, variant, table, fetches, builds, outdated,
                   colours, prompted, line, invoked, archive, percents, failed,
                   finished, net, reads, hvars>>

Next ==
    \/ Main
    \/ DetectVariant
    \/ FetchDolphin
    \/ FetchIshiiruka
    \/ GetLatestDownload
    \/ GetLatestVersion
    \/ GetInstalledVersion
    \/ IsOutdated
    \/ ReadLine
    \/ Download
    \/ Extract
    \/ UpdateDolphin
    \/ RemoveArchive
    \/ Launch

Spec == Init /\ [][Next]_vars

(***************************************************************************)
(* The two-run harness: the same entries installed into the same           *)
(* installation directory once as a flat archive and once wrapped in       *)
(* Dolphin-x64, by download_and_update with a server that answers and a    *)
(* 7zr that extracts everything, under the same listing order and the same *)
(* path resolution.                                                        *)
(***************************************************************************)
HarnessNames == {DolphinExe, Sys, packed_folder_name, Extracted, Dolphin7z}

\* the inner contents of the archives: up to MaxEntries new files and folders
HarnessEntries ==
    UNION {[S -> {File("new"), NewDir}] :
              S \in {T \in SUBSET HarnessNames : T # {} /\ Cardinality(T) <= MaxEntries}}

\* the installation directories: Dolphin.exe and any older entries, leftovers
\* of an earlier run (Extracted, Dolphin.7z) among them
HarnessDirs ==
    {Put(d, DolphinExe, File("old")) :
        d \in UNION {[S -> {File("old"), OldDir}] :
                        S \in SUBSET (HarnessNames \ {DolphinExe})}}

\* a listing order of all names in play that lists the entries in order `perm`
FullOrder(perm) ==
    perm \o SelectSeq(<<packed_folder_name, ChildNew>>,
                      LAMBDA n : \A i \in DOMAIN perm : perm[i] # n)

MainIdle ==
    /\ pc = "harness"
    /\ path = Join(InstallDirPath, DolphinExe)
    /\ dir0 = EmptyDir
    /\ dir = EmptyDir
    /\ binary = <<>>
    /\ variant = ""
    /\ table = NoTable
    /\ fetches = 0
    /\ builds = Unset
    /\ outdated = FALSE
    /\ colours = <<>>
    /\ prompted = 0
    /\ line = None
    /\ invoked = FALSE
    /\ archive = EmptyDir
    /\ percents = <<>>
    /\ failed = {}
    /\ finished = FALSE
    /\ net = 0
    /\ reads = 0
    /\ launched = 0
    /\ exc = ""
    /\ status = -1

InitInstall ==
    /\ MainIdle
    /\ hpc = "flat"
    /\ hdir0 \in HarnessDirs
    /\ hentries \in HarnessEntries
    /\ horder \in {FullOrder(perm) : perm \in Perms(DOMAIN hentries)}
    /\ hlexical \in BOOLEAN
    /\ hflat = Done(hdir0)
    /\ hwrapped = Done(hdir0)

\* download_and_update of an archive with top-level content `top`
Install(top) ==
    LET r == download_and_update(hdir0, Url(V12), InstallDirPath,
                                 Response("ok", -1, 12000), Written(TRUE, top, 0),
                                 horder, hlexical)
    IN  [exc |-> r.exc, dir |-> r.dir]

InstallFlat ==
    /\ hpc = "flat"
    /\ hflat' = Install(Flat(hentries))
    /\ hpc' = "wrapped"
    /\ UNCHANGED <<mainvars, hdir0, hentries, horder, hlexical, hwrapped>>

InstallWrapped ==
    /\ hpc = "wrapped"
    /\ hwrapped' = Install(Wrapped(hentries))
    /\ hpc' = "done"
    /\ UNCHANGED <<mainvars, hdir0, hentries, horder, hlexical, hflat>>

NextInstall == InstallFlat \/ InstallWrapped

SpecInstall == InitInstall /\ [][NextInstall]_vars


(***************************************************************************)
(* Properties                                                              *)
(***************************************************************************)
\* update_dolphin_if_necessary has decided between installing and not
Decided ==
    \/ pc \in {"download", "extract", "update_dolphin", "remove", "launch"}
    \/ pc = "exited" /\ (launched = 1 \/ invoked)

\* builds.is_outdated() has been evaluated
Evaluated == Decided \/ pc = "input" \/ (pc = "exited" /\ prompted = 1)

\* two strings are the same, character for character
CharIdentical(a, b) == Len(a) = Len(b) /\ \A i \in 1..Len(a) : a[i] = b[i]

\* the file the --path argument names exists
Exists(p) == Dirname(p) = InstallDirPath /\ Basename(p) \in DOMAIN dir0

\* C1: the installer is invoked exactly when the installed and the latest
\* version differ and the operator answers the prompt with the empty line; equal
\* versions show no prompt; after any other answer nothing is downloaded and
\* the installation directory is as the run found it, up to and after the launch.
C1_InstallerIffOutdatedAndConfirmed ==
    /\ Decided => (invoked <=> (builds.installed_version # builds.latest_version
                                /\ line = <<>>))
    /\ (Decided /\ builds.installed_version = builds.latest_version)
          => (prompted = 0 /\ line = None)
    /\ invoked => prompted = 1
    /\ ~invoked => (dir = dir0 /\ net <= fetches /\ failed = {} /\ percents = <<>>)
    /\ line \notin {None, <<>>} => ~invoked

\* C1's case: an outdated build, the empty line, the installer ran, the launch
C1_Witness ==
    /\ outdated
    /\ line = <<>>
    /\ invoked
    /\ finished
    /\ launched = 1

\* C2: the binary is launched at most once; when the installer was started the
\* launch comes only after its last step, and no launch follows an installer
\* step that failed.
C2_LaunchOnlyAfterInstallerSucceeded ==
    /\ launched <= 1
    /\ (launched = 1 /\ invoked) => finished
    /\ failed # {} => launched = 0

\* C3: a --path argument that does not end with Dolphin.exe, or that names no
\* existing file, ends the run with status 1 before any request to the network,
\* any read of the binary, any change of the installation directory and any
\* launch.
C3_BadPathExitsFirst ==
    (~EndsWith(path, DolphinExe) \/ ~Exists(path))
        => /\ pc \in {"main", "exited"}
           /\ pc = "exited" => status = 1
           /\ net = 0
           /\ reads = 0
           /\ dir = dir0
           /\ launched = 0

\* C3's case: an existing file whose name is not Dolphin.exe was turned down
C3_Witness ==
    /\ pc = "exited"
    /\ status = 1
    /\ Exists(path)
    /\ ~EndsWith(path, DolphinExe)

\* C4: is_outdated() is true exactly when the installed and the latest version
\* are not the same string, character for character.
C4_OutdatedIffNotIdentical ==
    Evaluated =>
        (outdated <=> ~CharIdentical(builds.installed_version, builds.latest_version))

\* C4's case: two versions with the same build number that differ as strings
C4_Witness ==
    /\ Evaluated
    /\ outdated
    /\ builds.latest_version # None
    /\ Numeric(builds.installed_version) = Numeric(builds.latest_version)

\* the fields of builds are set and the table is the one they were read from
Built == pc \in {"get_installed_version", "is_outdated", "input", "download"}

\* C5: latest_version is the version of the release the download link belongs
\* to: for Mainline the version of the row whose a.win link was returned, for the
\* Community Fork the build number in the text of the anchor whose href was
\* returned.
C5_SameReleaseRow ==
    (Built /\ builds.latest_download # None) =>
        IF variant = "dolphin"
        THEN builds.latest_version = table.rows[LatestDownloadRow(table)].version
        ELSE builds.latest_version = SearchArchiveBuild(table.rows[LatestAnchor(table)].text)

\* the entries of `entries` over those of d
Merged(entries, d) ==
    [n \in (DOMAIN entries) \cup (DOMAIN d) |->
        IF n \in DOMAIN entries THEN entries[n] ELSE d[n]]

\* C6: installing the wrapped archive leaves the installation directory holding
\* the archive's inner entries and, untouched, the earlier entries they do not
\* name, and nothing else: no extraction folder, no downloaded archive.
C6_WrappedInstallMerges ==
    hpc = "done" => hwrapped = Done(Merged(hentries, hdir0))

\* C7: the flat and the wrapped archive of the same entries leave the same
\* installation directory, and end the same way.
C7_FlatEqualsWrapped ==
    hpc = "done" => hflat = hwrapped

\* C8: no progress callback the server can cause raises a division error.
C8_NoDivisionError ==
    exc # "ZeroDivisionError"

\* C9: the Community Fork fetch is tried again at most 3 times and then fails
\* with a NetworkError.
C9_BoundedRetry ==
    /\ variant = "ishiiruka" => fetches <= 1 + 3
    /\ exc # "RecursionError"

\* C10: when the operator was prompted and the installer invoked, latest_version
\* and latest_download are both strings.
C10_LatestDefinedWhenInvoked ==
    (prompted = 1 /\ invoked)
        => (builds.latest_version # None /\ builds.latest_download # None)
=============================================================================
